---- MODULE Spec2Model ----
(***************************************************************************)
(* Two Wordle players against a remote game server:                        *)
(*   wordle_solver.py  WordleClient / WordleGame (scored guesses)          *)
(*   wordle_bot.py     WordleAPI / Wordle (first-candidate guesses)        *)
(* Words and feedback strings are sequences of one-character strings.      *)
(***************************************************************************)
EXTENDS Integers, Sequences, FiniteSets

VARIABLES
    program,         \* which script runs: "solver", "bot"
    pc,              \* position of the script
    file_exists,     \* whether medium.txt can be opened
    file,            \* stripped lines of medium.txt
    all_words,       \* WordleGame.all_words / Wordle.words
    possible_words,  \* self.possible_words
    guess,           \* solve's local guess / Wordle.guess
    attempt,         \* solve's loop variable
    attempts,        \* Wordle.attempts
    status,          \* Wordle.status
    response,        \* Wordle.response
    feedback,        \* what submit_guess / WordleAPI.guess last returned
    printed,         \* outcome messages written to the console
    reported,        \* attempt number written in the success message
    requests,        \* endpoints POSTed to, in order
    error,           \* exception that left the script, "" if none
    honest,          \* secrets for which every feedback so far is the oracle's
    word_size,       \* Wordle.word_size
    filtered,        \* <<guess, feedback>> pairs the filter has been run with
    submitted,       \* words sent to the guess endpoint
    answer           \* hypothetical answer of a direct oracle call

vars == <<program, pc, filtered, submitted, file_exists, file, all_words, possible_words, guess, attempt, attempts,
          status, response, feedback, printed, reported, requests, error, honest,
          word_size, answer>>

-----------------------------------------------------------------------------
(* Program constants *)

WORD_LENGTH == 5
MAX_ATTEMPTS == 6
max_attempts == 6

None == "None"
\* None where a word is expected
NoWord == <<>>
Opener == <<"s","o","a","r","e">>

AllExact == [i \in 1..WORD_LENGTH |-> "G"]
GGGGG == <<"G","G","G","G","G">>

Range(s) == {s[i] : i \in DOMAIN s}

-----------------------------------------------------------------------------
(* Feedback oracle of wordle_solver.py *)

\* first pass: exact matches consume the guess and the answer letter
SolverPass1Answer(g, a) ==
    [i \in 1..WORD_LENGTH |-> IF g[i] = a[i] THEN None ELSE a[i]]

SolverPass1Guess(g, a) ==
    [i \in 1..WORD_LENGTH |-> IF g[i] = a[i] THEN None ELSE g[i]]

SolverPass1Feedback(g, a) ==
    [i \in 1..WORD_LENGTH |-> IF g[i] = a[i] THEN "G" ELSE "R"]

\* list.index: first position holding c
Index(chars, c) == CHOOSE k \in DOMAIN chars :
    chars[k] = c /\ \A j \in 1..(k - 1) : chars[j] # c

\* second pass: a letter found among the unconsumed answer letters is marked
\* 'Y' and its first occurrence is consumed
RECURSIVE SolverPass2(_, _, _, _)
SolverPass2(i, fb, answer_chars, guess_chars) ==
    IF i > WORD_LENGTH THEN fb
    ELSE IF guess_chars[i] # None /\ guess_chars[i] \in Range(answer_chars)
         THEN SolverPass2(i + 1, [fb EXCEPT ![i] = "Y"],
                          [answer_chars EXCEPT ![Index(answer_chars, guess_chars[i])] = None],
                          guess_chars)
         ELSE SolverPass2(i + 1, fb, answer_chars, guess_chars)

\* the oracle whose second pass consumes no answer letter
_get_feedback_for_filter_NoConsume(g, a) ==
    [i \in 1..WORD_LENGTH |->
        IF g[i] = a[i] THEN "G"
        ELSE IF g[i] \in Range(SolverPass1Answer(g, a)) THEN "Y" ELSE "R"]

\* the oracle without its second pass
_get_feedback_for_filter_ExactOnly(g, a) ==
    SolverPass1Feedback(g, a)

_get_feedback_for_filter(g, a) ==
    SolverPass2(1, SolverPass1Feedback(g, a), SolverPass1Answer(g, a),
                SolverPass1Guess(g, a))

-----------------------------------------------------------------------------
(* Feedback oracle of wordle_bot.py *)

BotPass1Answer(g, a) ==
    [i \in 1..5 |-> IF g[i] = a[i] THEN None ELSE a[i]]

BotPass1Guess(g, a) ==
    [i \in 1..5 |-> IF g[i] = a[i] THEN None ELSE g[i]]

BotPass1Feedback(g, a) ==
    [i \in 1..5 |-> IF g[i] = a[i] THEN "G" ELSE "R"]

RECURSIVE BotPass2(_, _, _, _)
BotPass2(i, fb, answer_chars, guess_chars) ==
    IF i > 5 THEN fb
    ELSE IF guess_chars[i] # None /\ guess_chars[i] \in Range(answer_chars)
         THEN BotPass2(i + 1, [fb EXCEPT ![i] = "Y"],
                       [answer_chars EXCEPT ![Index(answer_chars, guess_chars[i])] = None],
                       guess_chars)
         ELSE BotPass2(i + 1, fb, answer_chars, guess_chars)

\* the oracle whose first pass consumes nothing, so that the second pass marks
\* the exact matches again
get_feedback_NoExactConsume(g, a) ==
    [i \in 1..5 |-> IF g[i] \in Range(a) THEN "Y" ELSE "R"]

get_feedback(g, a) ==
    BotPass2(1, BotPass1Feedback(g, a), BotPass1Answer(g, a), BotPass1Guess(g, a))

-----------------------------------------------------------------------------
(* Candidate filtering *)

\* the filter keeping the words that contradict the feedback
_filter_words_Negated(words, g, fb) ==
    LET Test(w) == _get_feedback_for_filter(g, w) # fb IN SelectSeq(words, Test)

\* the filter reading self.all_words instead of self.possible_words
_filter_words_FromAll(words, g, fb) ==
    LET Test(w) == _get_feedback_for_filter(g, w) = fb IN SelectSeq(all_words, Test)

\* the filter keeping the guessed word whatever the feedback
_filter_words_KeepGuess(words, g, fb) ==
    LET Test(w) == w = g \/ _get_feedback_for_filter(g, w) = fb IN SelectSeq(words, Test)

\* WordleGame._filter_words: the new value of self.possible_words
_filter_words(words, g, fb) ==
    LET Test(w) == _get_feedback_for_filter(g, w) = fb IN SelectSeq(words, Test)

\* the filter dropping the first two candidates
remove_impossible_words_DropTwo(words, g, resp) ==
    LET Test(w) == get_feedback(g, w) = resp IN SelectSeq(SubSeq(words, 3, Len(words)), Test)

\* Wordle.remove_impossible_words: the new value of self.possible_words
remove_impossible_words(words, g, resp) ==
    LET Test(w) == get_feedback(g, w) = resp IN SelectSeq(SubSeq(words, 2, Len(words)), Test)

-----------------------------------------------------------------------------
(* Guess selection of wordle_solver.py *)

\* set(word)
Letters(w) == {w[i] : i \in DOMAIN w}

\* Counter(flat_list_of_chars)[char]: one count per candidate holding the letter
char_counts(words, c) == Cardinality({k \in DOMAIN words : c \in Letters(words[k])})

\* sum(char_counts[char] for char in chars)
RECURSIVE SumCounts(_, _)
SumCounts(words, chars) ==
    IF chars = {} THEN 0
    ELSE LET c == CHOOSE x \in chars : TRUE
         IN char_counts(words, c) + SumCounts(words, chars \ {c})

score(words, w) == SumCounts(words, Letters(w))

\* the scan with a non-strict comparison: a later word of equal score replaces
\* the best
RECURSIVE BestWordScan_LastTie(_, _, _, _)
BestWordScan_LastTie(words, k, best_word, max_score) ==
    IF k > Len(words) THEN best_word
    ELSE IF score(words, words[k]) >= max_score
         THEN BestWordScan_LastTie(words, k + 1, words[k], score(words, words[k]))
         ELSE BestWordScan_LastTie(words, k + 1, best_word, max_score)

\* the scan for the best word; a later word replaces the best only on a strictly
\* higher score
RECURSIVE BestWordScan(_, _, _, _)
BestWordScan(words, k, best_word, max_score) ==
    IF k > Len(words) THEN best_word
    ELSE IF score(words, words[k]) > max_score
         THEN BestWordScan(words, k + 1, words[k], score(words, words[k]))
         ELSE BestWordScan(words, k + 1, best_word, max_score)

\* the selector with ties of the scored branch broken at random
_get_best_guess_RandomTie(possible, all) ==
    IF possible = <<>> THEN {NoWord}
    ELSE IF Len(possible) = Len(all) /\ Opener \in Range(possible) THEN {Opener}
    ELSE IF Len(possible) <= 2 THEN Range(possible)
    ELSE {w \in Range(possible) :
            \A v \in Range(possible) : score(possible, v) <= score(possible, w)}

\* the selector falling back to the opener on an empty candidate list
_get_best_guess_EmptyOpener(possible, all) ==
    IF possible = <<>> THEN {Opener}
    ELSE IF Len(possible) = Len(all) /\ Opener \in Range(possible) THEN {Opener}
    ELSE IF Len(possible) <= 2 THEN Range(possible)
    ELSE {BestWordScan(possible, 1, <<>>, -1)}

\* the selector testing for a short candidate list before the opener
_get_best_guess_SmallFirst(possible, all) ==
    IF possible = <<>> THEN {NoWord}
    ELSE IF Len(possible) <= 2 THEN Range(possible)
    ELSE IF Len(possible) = Len(all) /\ Opener \in Range(possible) THEN {Opener}
    ELSE {BestWordScan(possible, 1, <<>>, -1)}

\* the selector scoring the full word list instead of the candidates
_get_best_guess_ScanAll(possible, all) ==
    IF possible = <<>> THEN {NoWord}
    ELSE IF Len(possible) = Len(all) /\ Opener \in Range(possible) THEN {Opener}
    ELSE IF Len(possible) <= 2 THEN Range(possible)
    ELSE {BestWordScan(all, 1, <<>>, -1)}

\* WordleGame._get_best_guess: the values the call may return (random.choice
\* may return any element)
_get_best_guess(possible, all) ==
    IF possible = <<>> THEN {NoWord}
    ELSE IF Len(possible) = Len(all) /\ Opener \in Range(possible) THEN {Opener}
    ELSE IF Len(possible) <= 2 THEN Range(possible)
    ELSE {BestWordScan(possible, 1, <<>>, -1)}

-----------------------------------------------------------------------------
(* Word source *)

UpperCase == <<"A","B","C","D","E","F","G","H","I","J","K","L","M",
               "N","O","P","Q","R","S","T","U","V","W","X","Y","Z">>
LowerCase == <<"a","b","c","d","e","f","g","h","i","j","k","l","m",
               "n","o","p","q","r","s","t","u","v","w","x","y","z">>

\* str.lower on one character
LowerChar(c) ==
    IF \E k \in DOMAIN UpperCase : UpperCase[k] = c
    THEN LowerCase[CHOOSE k \in DOMAIN UpperCase : UpperCase[k] = c]
    ELSE c

lower(w) == [i \in DOMAIN w |-> LowerChar(w[i])]

\* [w.strip().lower() for w in f if len(w.strip()) == length]
RECURSIVE ReadWords(_, _)
ReadWords(lines, length) ==
    IF lines = <<>> THEN <<>>
    ELSE (IF Len(Head(lines)) = length THEN <<lower(Head(lines))>> ELSE <<>>)
         \o ReadWords(Tail(lines), length)

\* random.shuffle: every ordering of the list
RECURSIVE Shuffles(_)
Shuffles(s) ==
    IF s = <<>> THEN {<<>>}
    ELSE UNION {{<<s[k]>> \o t :
                    t \in Shuffles(SubSeq(s, 1, k - 1) \o SubSeq(s, k + 1, Len(s)))} :
                k \in DOMAIN s}

-----------------------------------------------------------------------------
(* Game server *)

\* str.replace("B", "R")
ReplaceBR(raw) == [i \in DOMAIN raw |-> IF raw[i] = "B" THEN "R" ELSE raw[i]]

\* the oracle of the running script
Oracle(g, a) ==
    IF program = "solver" THEN _get_feedback_for_filter(g, a) ELSE get_feedback(g, a)

\* the server writes a miss as 'B'
ServerAlphabet(fb) == [i \in DOMAIN fb |-> IF fb[i] = "R" THEN "B" ELSE fb[i]]

\* any(c not in "GYR" for c in response)
BadSymbol(resp) == \E i \in DOMAIN resp : resp[i] \notin {"G", "Y", "R"}

-----------------------------------------------------------------------------
(* Inputs *)

cat == <<"c","a","t">>
soare == <<"s","o","a","r","e">>
crane == <<"c","r","a","n","e">>
slate == <<"s","l","a","t","e">>
trace == <<"t","r","a","c","e">>
brace == <<"b","r","a","c","e">>
bates == <<"b","a","t","e","s">>
cates == <<"c","a","t","e","s">>
dates == <<"d","a","t","e","s">>
fates == <<"f","a","t","e","s">>
gates == <<"g","a","t","e","s">>
Hates == <<"H","a","t","e","s">>
hates == <<"h","a","t","e","s">>
mates == <<"m","a","t","e","s">>
sassy == <<"s","a","s","s","y">>
class == <<"c","l","a","s","s">>

\* longest slice of FileLines taken as a word file
MaxFileLen == 3

FileLines == <<cat, soare, crane, slate, trace, brace>>

\* a word file long enough to outlast MAX_ATTEMPTS guesses
LongFile == <<soare, bates, cates, dates, fates, gates, Hates>>

Files ==
    {SubSeq(FileLines, q[1], q[2]) :
        q \in {r \in (1..(Len(FileLines) + 1)) \X (0..Len(FileLines)) :
                  r[2] >= r[1] - 1 /\ r[2] - r[1] + 1 <= MaxFileLen}}
    \cup {LongFile}

\* the secrets the server may hold
Secrets == {soare, crane, slate, trace, brace, bates, cates, dates, fates, gates,
            hates, mates}

\* feedback strings no oracle call produces
Malformed == {<<>>, <<"G","G","G","G">>, <<"G","Y","B","B","B","B">>,
              <<"G","G","X","G","G">>, <<"Y","Y","Y","Y","Y">>}

\* what the server may answer to a guess, in its own alphabet
ServerFeedbacks(g) == {ServerAlphabet(Oracle(g, s)) : s \in Secrets} \cup Malformed

Consistent(secrets, g, fb) == {s \in secrets : Oracle(g, s) = fb}

-----------------------------------------------------------------------------
(* wordle_solver.py *)

Idle ==
    /\ all_words = <<>> /\ possible_words = <<>> /\ guess = <<>>
    /\ attempt = 0 /\ attempts = 0 /\ status = "" /\ response = <<>>
    /\ feedback = <<>> /\ printed = {} /\ reported = 0 /\ requests = <<>>
    /\ error = "" /\ honest = Secrets /\ word_size = 0
    /\ filtered = {} /\ submitted = {}

Init ==
    /\ program \in {"solver", "bot"}
    /\ pc = "main"
    /\ file_exists \in BOOLEAN
    /\ file \in (IF file_exists THEN Files ELSE {<<>>})
    /\ answer = <<>>
    /\ Idle

\* game = WordleGame(CONFIG)
SolverConstruct ==
    /\ program = "solver" /\ pc = "main"
    /\ IF ~file_exists \/ ReadWords(file, WORD_LENGTH) = <<>>
       THEN /\ error' = "ValueError"
            /\ pc' = "crashed"
            /\ UNCHANGED <<all_words, possible_words>>
       ELSE /\ all_words' = ReadWords(file, WORD_LENGTH)
            /\ possible_words' = ReadWords(file, WORD_LENGTH)
            /\ pc' = "register"
            /\ error' = error
    /\ UNCHANGED <<program, filtered, submitted, file_exists, file, guess, attempt, attempts, status, response, feedback,
                   printed, reported, requests, honest, word_size, answer>>

\* the script after an except clause that loops back into the attempts
AfterApiError_Continue == "select"

\* except (WordleAPIError, ValueError): print the error, solve returns
AfterApiError == "done"

\* start_session, the register request
SolverRegister ==
    /\ program = "solver" /\ pc = "register"
    /\ requests' = Append(requests, "register")
    /\ \E reply \in {"id", "no id", "error"} :
         IF reply = "id"
         THEN pc' = "create" /\ printed' = printed
         ELSE pc' = AfterApiError /\ printed' = printed \cup {"ERROR"}
    /\ UNCHANGED <<program, filtered, submitted, file_exists, file, all_words, possible_words, guess, attempt, attempts,
                   status, response, feedback, reported, error, honest, word_size,
                   answer>>

\* start_session, the create request; the for loop starts at attempt 1
SolverCreate ==
    /\ program = "solver" /\ pc = "create"
    /\ requests' = Append(requests, "create")
    /\ \E reply \in {"ok", "error"} :
         IF reply = "ok"
         THEN pc' = "select" /\ attempt' = 1 /\ printed' = printed
         ELSE pc' = AfterApiError /\ attempt' = attempt /\ printed' = printed \cup {"ERROR"}
    /\ UNCHANGED <<program, filtered, submitted, file_exists, file, all_words, possible_words, guess, attempts,
                   status, response, feedback, reported, error, honest, word_size,
                   answer>>

\* guess = self._get_best_guess(); if not guess: break
SolverSelect ==
    /\ program = "solver" /\ pc = "select"
    /\ \E g \in _get_best_guess(possible_words, all_words) :
         IF g = NoWord
         THEN pc' = "done" /\ guess' = g /\ printed' = printed \cup {"NO_CANDIDATES"}
         ELSE pc' = "submit" /\ guess' = g /\ printed' = printed
    /\ UNCHANGED <<program, filtered, submitted, file_exists, file, all_words, possible_words, attempt, attempts,
                   status, response, feedback, reported, requests, error, honest,
                   word_size, answer>>

\* the rest of the loop body once submit_guess has returned fb
SolverHandle(fb) ==
    /\ feedback' = fb
    /\ honest' = Consistent(honest, guess, fb)
    /\ IF fb = <<>>
       THEN /\ pc' = "done"
            /\ UNCHANGED <<possible_words, attempt, printed, reported, filtered>>
       ELSE IF fb = AllExact
       THEN /\ pc' = "done"
            /\ printed' = printed \cup {"WON"}
            /\ reported' = attempt
            /\ UNCHANGED <<possible_words, attempt, filtered>>
       ELSE /\ possible_words' = _filter_words(possible_words, guess, fb)
            /\ filtered' = filtered \cup {<<guess, fb>>}
            /\ reported' = reported
            /\ IF attempt = MAX_ATTEMPTS
               THEN pc' = "done" /\ attempt' = attempt
                    /\ printed' = printed \cup {"EXHAUSTED"}
               ELSE pc' = "select" /\ attempt' = attempt + 1 /\ printed' = printed

\* feedback = self.api_client.submit_guess(guess) and the rest of the loop body
SolverSubmit ==
    /\ program = "solver" /\ pc = "submit"
    /\ requests' = Append(requests, "guess")
    /\ submitted' = submitted \cup {guess}
    /\ \/ \E raw \in ServerFeedbacks(guess) : SolverHandle(ReplaceBR(raw))
       \/ \* the response has no "feedback" key
          SolverHandle(<<>>)
       \/ \* _post raises WordleAPIError
          /\ pc' = AfterApiError
          /\ printed' = printed \cup {"ERROR"}
          /\ UNCHANGED <<possible_words, attempt, feedback, reported, honest, filtered>>
    /\ UNCHANGED <<program, file_exists, file, all_words, guess, attempts, status, response,
                   error, word_size, answer>>

-----------------------------------------------------------------------------
(* wordle_bot.py *)

\* id = WordleAPI.register("Sukeerthi")
BotRegister ==
    /\ program = "bot" /\ pc = "main"
    /\ requests' = Append(requests, "register")
    /\ \E reply \in {"id", "no id", "error"} :
         IF reply = "id"
         THEN pc' = "create" /\ error' = error
         ELSE pc' = "crashed"
              /\ error' = (IF reply = "no id" THEN "KeyError" ELSE "RequestException")
    /\ UNCHANGED <<program, filtered, submitted, file_exists, file, all_words, possible_words, guess, attempt, attempts,
                   status, response, feedback, printed, reported, honest, word_size,
                   answer>>

\* WordleAPI.create_game(id)
BotCreate ==
    /\ program = "bot" /\ pc = "create"
    /\ requests' = Append(requests, "create")
    /\ \E reply \in {"ok", "error"} :
         IF reply = "ok"
         THEN pc' = "construct" /\ error' = error
         ELSE pc' = "crashed" /\ error' = "RequestException"
    /\ UNCHANGED <<program, filtered, submitted, file_exists, file, all_words, possible_words, guess, attempt, attempts,
                   status, response, feedback, printed, reported, honest, word_size,
                   answer>>

\* game = Wordle(id)
BotConstruct ==
    /\ program = "bot" /\ pc = "construct"
    /\ IF ~file_exists
       THEN /\ pc' = "crashed" /\ error' = "FileNotFoundError"
            /\ UNCHANGED <<all_words, possible_words, guess, attempts, status,
                           response, word_size>>
       ELSE /\ all_words' = ReadWords(file, 5)
            /\ \E shuffled \in Shuffles(ReadWords(file, 5)) :
                 /\ possible_words' = shuffled
                 /\ IF shuffled = <<>>
                    THEN /\ pc' = "crashed" /\ error' = "IndexError"
                         /\ UNCHANGED <<guess, attempts, status, response, word_size>>
                    ELSE /\ guess' = shuffled[1]
                         /\ attempts' = 0
                         /\ status' = "PLAY"
                         /\ response' = <<>>
                         /\ word_size' = Len(shuffled[1])
                         /\ pc' = "loop" /\ error' = error
    /\ UNCHANGED <<program, filtered, submitted, file_exists, file, attempt, feedback, printed, reported, requests,
                   honest, answer>>

\* the loop condition without the cap on attempts
LoopGuard_NoCap == status = "PLAY" /\ possible_words # <<>>

\* while self.status == "PLAY" and self.possible_words and self.attempts < self.max_attempts
LoopGuard == status = "PLAY" /\ possible_words # <<>> /\ attempts < max_attempts

\* the attempt count of the success message, self.attempts itself
WonAttempts_NoPlusOne(n) == n

\* the attempt count of the success message: self.attempts + 1
WonAttempts(n) == n + 1

\* Wordle.play once WordleAPI.guess has returned resp
BotHandle(resp) ==
    /\ feedback' = resp
    /\ honest' = Consistent(honest, guess, resp)
    /\ IF Len(resp) # word_size \/ BadSymbol(resp)
       THEN /\ printed' = printed \cup {"INVALID"}
            /\ UNCHANGED <<status, response, reported>>
       ELSE IF resp = GGGGG
       THEN /\ printed' = printed \cup {"WON"}
            /\ reported' = WonAttempts(attempts)
            /\ status' = "WON"
            /\ response' = response
       ELSE /\ response' = resp
            /\ UNCHANGED <<status, printed, reported>>

\* self.play()
BotPlay ==
    /\ program = "bot" /\ pc = "loop" /\ LoopGuard
    /\ requests' = Append(requests, "guess")
    /\ submitted' = submitted \cup {guess}
    /\ \/ \E raw \in ServerFeedbacks(guess) :
            BotHandle(ReplaceBR(raw)) /\ pc' = "played" /\ error' = error
       \/ \E e \in {"KeyError", "RequestException"} :
            /\ pc' = "crashed" /\ error' = e
            /\ UNCHANGED <<status, response, feedback, printed, reported, honest>>
    /\ UNCHANGED <<program, filtered, file_exists, file, all_words, possible_words, guess, attempt, attempts,
                   word_size, answer>>

\* the loop condition fails
BotLoopExit ==
    /\ program = "bot" /\ pc = "loop" /\ ~LoopGuard
    /\ pc' = "finish"
    /\ UNCHANGED <<program, filtered, submitted, file_exists, file, all_words, possible_words, guess, attempt, attempts,
                   status, response, feedback, printed, reported, requests, error,
                   honest, word_size, answer>>

\* the loop body after self.play()
BotAfterPlay ==
    /\ program = "bot" /\ pc = "played"
    /\ IF status = "WON"
       THEN /\ pc' = "finish"
            /\ UNCHANGED <<possible_words, guess, attempts, printed, filtered>>
       ELSE /\ possible_words' = remove_impossible_words(possible_words, guess, response)
            /\ filtered' = filtered \cup {<<guess, response>>}
            /\ IF possible_words' = <<>>
               THEN /\ pc' = "finish"
                    /\ printed' = printed \cup {"NO_CANDIDATES"}
                    /\ UNCHANGED <<guess, attempts>>
               ELSE /\ guess' = possible_words'[1]
                    /\ attempts' = attempts + 1
                    /\ pc' = "loop"
                    /\ printed' = printed
    /\ UNCHANGED <<program, submitted, file_exists, file, all_words, attempt, status, response, feedback,
                   reported, requests, error, honest, word_size, answer>>

\* if self.status != "WON": print(...)
BotFinish ==
    /\ program = "bot" /\ pc = "finish"
    /\ pc' = "done"
    /\ printed' = (IF status # "WON" THEN printed \cup {"EXHAUSTED"} ELSE printed)
    /\ UNCHANGED <<program, filtered, submitted, file_exists, file, all_words, possible_words, guess, attempt, attempts,
                   status, response, feedback, reported, requests, error, honest,
                   word_size, answer>>

Next ==
    \/ SolverConstruct
    \/ SolverRegister
    \/ SolverCreate
    \/ SolverSelect
    \/ SolverSubmit
    \/ BotRegister
    \/ BotCreate
    \/ BotConstruct
    \/ BotPlay
    \/ BotLoopExit
    \/ BotAfterPlay
    \/ BotFinish

Spec == Init /\ [][Next]_vars

Terminated == pc \in {"done", "crashed"}

NumGuesses == Cardinality({k \in DOMAIN requests : requests[k] = "guess"})

-----------------------------------------------------------------------------
(* Direct calls of the oracle and of the filter *)

\* letters of the generated words
NumLetters == 2

UnitLetters == <<"s", "a", "c">>

UnitWords ==
    [1..WORD_LENGTH -> {UnitLetters[k] : k \in 1..NumLetters}]
    \cup {sassy, class, crane, brace, slate, trace, soare}

\* candidate lists holding the guess first
UnitLists(g, a) ==
    {<<g, a>>} \cup (IF g = crane THEN {<<crane, slate, trace, brace>>} ELSE {})

UnitInit ==
    /\ program \in {"solver", "bot"}
    /\ pc = "call_oracle"
    /\ file_exists = TRUE /\ file = <<>>
    /\ guess \in UnitWords
    /\ answer \in UnitWords
    /\ possible_words \in UnitLists(guess, answer)
    /\ all_words = possible_words
    /\ attempt = 0 /\ attempts = 0 /\ status = "" /\ response = <<>>
    /\ feedback = <<>> /\ printed = {} /\ reported = 0 /\ requests = <<>>
    /\ error = "" /\ honest = Secrets /\ word_size = 0
    /\ filtered = {} /\ submitted = {}

\* _get_feedback_for_filter(guess, answer) / Wordle.get_feedback(guess, answer)
UnitOracle ==
    /\ pc = "call_oracle"
    /\ feedback' = Oracle(guess, answer)
    /\ response' = (IF program = "bot" THEN feedback' ELSE response)
    /\ pc' = "call_filter"
    /\ UNCHANGED <<program, filtered, submitted, file_exists, file, all_words, possible_words, guess,
                   attempt, attempts, status, printed, reported, requests, error,
                   honest, word_size, answer>>

\* _filter_words(guess, feedback) / remove_impossible_words()
UnitFilter ==
    /\ pc = "call_filter"
    /\ possible_words' =
         (IF program = "solver" THEN _filter_words(possible_words, guess, feedback)
          ELSE remove_impossible_words(possible_words, guess, response))
    /\ pc' = "returned"
    /\ UNCHANGED <<program, filtered, submitted, file_exists, file, all_words, guess, attempt, attempts,
                   status, response, feedback, printed, reported, requests, error,
                   honest, word_size, answer>>

UnitNext ==
    \/ UnitOracle
    \/ UnitFilter

UnitSpec == UnitInit /\ [][UnitNext]_vars

-----------------------------------------------------------------------------
(* Direct calls of the selector *)

\* longest word list of the direct calls
MaxListLen == 4

SelectWords == {soare, crane, slate, trace, bates, cates}

\* the word lists _load_words may return
SelectLists == UNION {[1..n -> SelectWords] : n \in 1..MaxListLen}

\* the candidate lists solve holds when it calls the selector: the full list on
\* the first attempt, the list filtered on the first guess on the second
SelectCandidates(all) ==
    {all} \cup
    UNION {{_filter_words(all, g, _get_feedback_for_filter(g, s)) :
               s \in SelectWords \ {g}} : g \in _get_best_guess(all, all)}

SelectInit ==
    /\ program = "solver"
    /\ pc = "call_select"
    /\ file_exists = TRUE /\ file = <<>>
    /\ all_words \in SelectLists
    /\ possible_words \in SelectCandidates(all_words)
    /\ guess = <<>> /\ answer = <<>>
    /\ attempt = 0 /\ attempts = 0 /\ status = "" /\ response = <<>>
    /\ feedback = <<>> /\ printed = {} /\ reported = 0 /\ requests = <<>>
    /\ error = "" /\ honest = Secrets /\ word_size = 0
    /\ filtered = {} /\ submitted = {}

\* guess = self._get_best_guess()
SelectCall ==
    /\ pc = "call_select"
    /\ guess' \in _get_best_guess(possible_words, all_words)
    /\ pc' = "selected"
    /\ UNCHANGED <<program, filtered, submitted, file_exists, file, all_words,
                   possible_words, attempt, attempts, status, response, feedback,
                   printed, reported, requests, error, honest, word_size, answer>>

SelectNext == SelectCall

SelectSpec == SelectInit /\ [][SelectNext]_vars

-----------------------------------------------------------------------------
(* Properties *)

Outcomes == {"WON", "NO_CANDIDATES", "EXHAUSTED", "INVALID"}

\* steps the script can still take: a bound that every step lowers
StepsLeft ==
    IF Terminated THEN 0
    ELSE IF program = "solver"
    THEN CASE pc = "main" -> 2 * MAX_ATTEMPTS + 3
           [] pc = "register" -> 2 * MAX_ATTEMPTS + 2
           [] pc = "create" -> 2 * MAX_ATTEMPTS + 1
           [] pc = "select" -> 2 * (MAX_ATTEMPTS - attempt + 1)
           [] pc = "submit" -> 2 * (MAX_ATTEMPTS - attempt + 1) - 1
    ELSE CASE pc = "main" -> 3 * max_attempts + 5
           [] pc = "create" -> 3 * max_attempts + 4
           [] pc = "construct" -> 3 * max_attempts + 3
           [] pc = "loop" -> 3 * (max_attempts - attempts) + 2
           [] pc = "played" -> 3 * (max_attempts - attempts) + 1
           [] pc = "finish" -> 1

\* C1: under any server feedback the session submits at most MAX_ATTEMPTS
\* guesses and reaches a terminal state, in solve and in game: every step
\* lowers StepsLeft, which is never negative and is 0 only in a terminal state.
C1_LoopTerminates ==
    /\ [](NumGuesses <= MAX_ATTEMPTS)
    /\ [](StepsLeft >= 0 /\ (StepsLeft = 0 <=> Terminated))
    /\ [][StepsLeft' < StepsLeft]_vars

\* the attempt cap, not the candidate list, has ended the session
C1_Witness ==
    /\ Terminated
    /\ NumGuesses = MAX_ATTEMPTS
    /\ possible_words # <<>>
    /\ "WON" \notin printed

\* C2: a secret of the word list for which every feedback so far was the
\* oracle's is still in the candidate list, in solve and in game.
C2_SecretKept ==
    \A s \in honest : s \in Range(all_words) => s \in Range(possible_words)

\* two honest non-winning attempts have been filtered by the bot
C2_Witness ==
    /\ program = "bot" /\ pc = "loop" /\ attempts >= 2
    /\ Len(possible_words) < Len(all_words)
    /\ honest \cap Range(all_words) # {}

\* C3 as stated: once a feedback of length WORD_LENGTH - 1 has come back, no
\* further guess is submitted, and the session ends with the invalid-feedback
\* outcome and neither the no-candidates nor the exhausted one.
C3_Original ==
    /\ [](Terminated /\ Len(feedback) = WORD_LENGTH - 1
            => printed \cap Outcomes = {"INVALID"})
    /\ [][Len(feedback) = WORD_LENGTH - 1 => NumGuesses' = NumGuesses]_vars

\* positions of the guess holding letter c that the feedback credits
Credited(c) == {i \in DOMAIN guess : guess[i] = c /\ feedback[i] \in {"G", "Y"}}

Occurrences(w, c) == {i \in DOMAIN w : w[i] = c}

\* C4: for every letter, the oracle credits (EXACT or PRESENT) no more positions
\* of the guess than the answer has occurrences of the letter.
C4_NoOverCredit ==
    pc = "call_filter" =>
        \A c \in Letters(guess) :
            Cardinality(Credited(c)) <= Cardinality(Occurrences(answer, c))

\* "sassy" against "class": two of the three 's' are credited
C4_Witness ==
    /\ pc = "call_filter" /\ guess = sassy /\ answer = class
    /\ Cardinality(Credited("s")) = 2

\* C5 as stated: "crane" against "brace" is ABSENT, EXACT, EXACT, ABSENT, EXACT.
C5_Original ==
    pc = "call_filter" /\ guess = crane /\ answer = brace
        => feedback = <<"R", "G", "G", "R", "G">>

\* C5 amended: "crane" against "brace" is PRESENT, EXACT, EXACT, ABSENT, EXACT
\* ('c' occurs in "brace" at another position).
C5_CraneBrace ==
    pc = "call_filter" /\ guess = crane /\ answer = brace
        => feedback = <<"Y", "G", "G", "R", "G">>

C5_Witness == pc = "call_filter" /\ guess = crane /\ answer = brace

Scenario == <<crane, slate, trace, brace>>

\* C6 as stated: filtering the scenario list on the feedback of "crane" against
\* "brace" leaves exactly {"brace"}.
C6_Original ==
    pc = "returned" /\ all_words = Scenario /\ guess = crane /\ answer = brace
        => Range(possible_words) = {brace}

\* C6 amended: it leaves exactly "trace" and "brace", in that order.
C6_ScenarioFilter ==
    pc = "returned" /\ all_words = Scenario /\ guess = crane /\ answer = brace
        => possible_words = <<trace, brace>>

C6_Witness ==
    /\ pc = "returned" /\ program = "solver"
    /\ all_words = Scenario /\ guess = crane /\ answer = brace

\* C7: the oracle applied to a word as guess and as answer returns all-EXACT,
\* for both oracles.
C7_SelfAllExact ==
    pc = "call_filter" /\ guess = answer => feedback = AllExact /\ feedback = GGGGG

\* a word with a repeated letter scored against itself by the bot's oracle
C7_Witness ==
    pc = "call_filter" /\ program = "bot" /\ guess = sassy /\ answer = sassy

\* C8: the candidate list holds only words of the word list, and no step after
\* construction adds a word to it or lengthens it.
C8_NeverGrows ==
    /\ [](Range(possible_words) \subseteq Range(all_words))
    /\ [][pc \notin {"main", "construct"} =>
            /\ Range(possible_words') \subseteq Range(possible_words)
            /\ Len(possible_words') <= Len(possible_words)]_vars

\* three filter steps have shrunk the solver's list without emptying it
C8_Witness ==
    /\ program = "solver" /\ pc = "select" /\ attempt >= 4
    /\ possible_words # <<>>
    /\ Len(possible_words) < Len(all_words)

\* C9: WON is reported exactly when the last feedback received is all-EXACT, and
\* the attempt number reported is the number of guesses submitted, within
\* 1..MAX_ATTEMPTS.
C9_WonReport ==
    /\ "WON" \in printed <=> feedback = AllExact
    /\ "WON" \in printed =>
         reported = NumGuesses /\ reported \in 1..MAX_ATTEMPTS
    /\ "WON" \notin printed => reported = 0

\* the bot wins on its last allowed attempt
C9_Witness ==
    program = "bot" /\ "WON" \in printed /\ reported = MAX_ATTEMPTS

\* C10 as stated: when the word file holds no word of the required length, no
\* request is sent to the server and the script ends with a configuration error.
C10_Original ==
    file_exists /\ ReadWords(file, WORD_LENGTH) = <<>> =>
        /\ requests = <<>>
        /\ Terminated => error = "ValueError"

\* the call takes the random.choice branch of _get_best_guess
RandomBranch(possible, all) ==
    /\ possible # <<>>
    /\ ~(Len(possible) = Len(all) /\ Opener \in Range(possible))
    /\ Len(possible) <= 2

\* C11: outside the branch taken when at most 2 candidates remain, any two calls
\* of the selector on the same candidate list and the same full word list
\* return the same word: the call has one possible result, and the call made
\* returned it.
C11_Deterministic ==
    ~RandomBranch(possible_words, all_words) =>
        /\ \A g1, g2 \in _get_best_guess(possible_words, all_words) : g1 = g2
        /\ pc = "selected" => _get_best_guess(possible_words, all_words) = {guess}

\* the scored branch has returned on a list where two different words share the
\* highest score
C11_Witness ==
    /\ pc = "selected"
    /\ Len(possible_words) > 2
    /\ ~(Len(possible_words) = Len(all_words) /\ Opener \in Range(possible_words))
    /\ \E v \in Range(possible_words) :
         /\ v # guess
         /\ score(possible_words, v) = score(possible_words, guess)

\* C12: when start_session or submit_guess fails with a transport error, solve
\* ends the session without retry: once the error is reported the script is
\* done with no exception leaving solve, the failing step does not filter the
\* candidates, and no later step sends a request or filters.
C12_NoRetry ==
    /\ [](program = "solver" /\ "ERROR" \in printed => pc = "done" /\ error = "")
    /\ [][program = "solver" /\ "ERROR" \in printed' =>
            /\ possible_words' = possible_words
            /\ filtered' = filtered
            /\ ("ERROR" \in printed => requests' = requests)]_vars

\* submit_guess has failed after an earlier attempt was filtered
C12_Witness ==
    /\ program = "solver" /\ "ERROR" \in printed /\ pc = "done"
    /\ NumGuesses >= 2 /\ filtered # {} /\ possible_words # <<>>

\* a feedback of the wrong length or with a symbol outside G, Y, R
MalformedShape(fb) == Len(fb) # WORD_LENGTH \/ BadSymbol(fb)

\* C13 as stated: when the feedback received for an attempt is malformed, the
\* candidate list is left unchanged and the filter is not run, neither in the
\* step of solve that receives it nor in the step of game that follows play.
C13_Original ==
    [][(\/ program = "solver" /\ NumGuesses' > NumGuesses /\ MalformedShape(feedback')
        \/ program = "bot" /\ pc = "played" /\ MalformedShape(feedback))
         => possible_words' = possible_words /\ filtered' = filtered]_vars

\* the words of the list that give every recorded feedback, in list order
Fold(words, records) ==
    LET Keeps(w) == \A r \in records : _get_feedback_for_filter(r[1], w) = r[2]
    IN SelectSeq(words, Keeps)

\* the attempts of solve that did not win: those the filter was run with, and
\* the one that came back with an empty feedback
NonWinning ==
    filtered \cup
    (IF pc = "done" /\ NumGuesses > 0 /\ feedback = <<>> /\ "ERROR" \notin printed
     THEN {<<guess, feedback>>} ELSE {})

\* C14 as stated: after any sequence of non-winning attempts of solve, the
\* candidate list is the full word list restricted to the words giving every
\* attempt's feedback.
C14_Original ==
    program = "solver" /\ pc \in {"select", "submit", "done"}
        => possible_words = Fold(all_words, NonWinning)

\* C14, amended: after any sequence of non-winning attempts of solve whose
\* feedback was not empty, the candidate list is the full word list restricted,
\* in list order, to the words giving every attempt's feedback.
C14_PureFold ==
    program = "solver" /\ pc \in {"select", "submit", "done"}
        => possible_words = Fold(all_words, filtered)

\* three attempts have been filtered and candidates remain
C14_Witness ==
    /\ program = "solver" /\ pc = "select"
    /\ Cardinality(filtered) = 3 /\ Len(possible_words) >= 2

\* the score of a word against a candidate list: one point for every pair of a
\* distinct letter of the word and a candidate holding that letter
LetterScore(words, w) ==
    Cardinality({p \in Letters(w) \X DOMAIN words : p[1] \in Letters(words[p[2]])})

\* C15: when more than 2 candidates remain and the opener branch does not
\* apply, the selector returns a candidate of the highest score, and every
\* candidate before it in the list has a strictly lower score.
C15_HighestFirst ==
    (/\ pc = "selected"
     /\ Len(possible_words) > 2
     /\ ~(Len(possible_words) = Len(all_words) /\ Opener \in Range(possible_words)))
    => \E i \in DOMAIN possible_words :
         /\ possible_words[i] = guess
         /\ \A j \in DOMAIN possible_words :
              /\ LetterScore(possible_words, possible_words[j])
                   <= LetterScore(possible_words, guess)
              /\ j < i => LetterScore(possible_words, possible_words[j])
                            < LetterScore(possible_words, guess)

\* the scored branch has returned a word that is not the first of the list and
\* that a later, different candidate ties with
C15_Witness ==
    /\ pc = "selected"
    /\ Len(possible_words) > 2
    /\ ~(Len(possible_words) = Len(all_words) /\ Opener \in Range(possible_words))
    /\ guess # possible_words[1]
    /\ possible_words[Len(possible_words)] # guess
    /\ LetterScore(possible_words, possible_words[Len(possible_words)])
         = LetterScore(possible_words, guess)

\* C16 as stated: the exhausted-attempts report is printed exactly when
\* MAX_ATTEMPTS guesses were submitted and none was answered all-EXACT, and
\* never together with the win, the no-candidates or the invalid-feedback
\* report.
C16_Original ==
    pc = "done" =>
        /\ "EXHAUSTED" \in printed <=>
             (NumGuesses = MAX_ATTEMPTS /\ "WON" \notin printed)
        /\ "EXHAUSTED" \in printed =>
             printed \cap {"WON", "NO_CANDIDATES", "INVALID"} = {}

\* C17: when the candidate list is empty at the start of an attempt of solve,
\* the selector returns no guess and the loop ends with the no-candidates
\* report without a request to the server; no guess is ever submitted while
\* the candidate list is empty.
C17_NoGuessWhenEmpty ==
    /\ [](program = "solver" /\ pc = "select" /\ possible_words = <<>>
            => _get_best_guess(possible_words, all_words) = {NoWord})
    /\ [][program = "solver" /\ pc = "select" /\ possible_words = <<>>
            => /\ pc' = "done"
               /\ "NO_CANDIDATES" \in printed'
               /\ guess' = NoWord
               /\ requests' = requests]_vars
    /\ [][NumGuesses' > NumGuesses => possible_words # <<>>]_vars

\* solve has ended on an empty candidate list after a second guess
C17_Witness ==
    /\ program = "solver" /\ pc = "done"
    /\ possible_words = <<>> /\ guess = NoWord
    /\ "NO_CANDIDATES" \in printed
    /\ NumGuesses = 2

\* C18: on the first attempt of solve, when "soare" is in the word list, the
\* guess submitted is "soare", also when the list has 2 words or fewer.
C18_OpenerFirst ==
    program = "solver" /\ Opener \in Range(all_words) =>
        /\ pc = "submit" /\ attempt = 1 => guess = Opener
        /\ NumGuesses = 1 => submitted = {Opener}
        /\ NumGuesses >= 1 => Opener \in submitted

\* "soare" has been submitted first from a list of two words
C18_Witness ==
    /\ program = "solver"
    /\ Len(all_words) = 2 /\ all_words[1] = Opener /\ all_words[2] # Opener
    /\ NumGuesses = 1 /\ submitted = {Opener}

\* C19: every guess submitted to the server is a word of the candidate list
\* held when it was selected, hence a word of the full list that gives every
\* feedback filtered so far, in solve (every branch of the selector) and in
\* game.
C19_GuessIsCandidate ==
    [][NumGuesses' > NumGuesses =>
         /\ guess \in Range(possible_words)
         /\ guess \in Range(all_words)
         /\ \A r \in filtered : Oracle(r[1], guess) = r[2]]_vars

\* solve has submitted a third guess picked by the scored branch, and it won
C19_Witness ==
    /\ program = "solver" /\ NumGuesses = 3 /\ Cardinality(filtered) = 2
    /\ Len(possible_words) > 2
    /\ "WON" \in printed /\ guess \in submitted

\* the last attempt has been handled and did not win
AfterNonWinning ==
    /\ NumGuesses > 0
    /\ \/ /\ program = "solver" /\ pc \in {"select", "done"}
          /\ "WON" \notin printed /\ "ERROR" \notin printed
       \/ program = "bot" /\ pc \in {"loop", "finish", "done"} /\ status # "WON"

\* the step handles an attempt that does not win
NonWinningStep ==
    \/ /\ program = "solver" /\ NumGuesses' > NumGuesses
       /\ "WON" \notin printed' /\ "ERROR" \notin printed'
    \/ program = "bot" /\ pc = "played" /\ status # "WON"

\* C20 as stated: after every attempt that does not win, no submitted word is in
\* the candidate list, the handling of the attempt makes the list strictly
\* shorter, and no word is submitted twice.
C20_Original ==
    /\ [](AfterNonWinning => submitted \cap Range(possible_words) = {})
    /\ [][NonWinningStep => Len(possible_words') < Len(possible_words)]_vars
    /\ [][NumGuesses' > NumGuesses => guess \notin submitted]_vars

\* C20, amended: after every attempt that does not win and, in solve, whose
\* feedback is not empty, no submitted word is in the candidate list, the
\* handling of the attempt makes the list strictly shorter, and no word is
\* submitted twice.
C20_GuessRemoved ==
    /\ [](AfterNonWinning /\ ~(program = "solver" /\ feedback = <<>>)
            => submitted \cap Range(possible_words) = {})
    /\ [][NonWinningStep /\ ~(program = "solver" /\ feedback' = <<>>)
            => Len(possible_words') < Len(possible_words)]_vars
    /\ [][NumGuesses' > NumGuesses => guess \notin submitted]_vars

\* solve has filtered three attempts and still holds candidates
C20_Witness ==
    /\ program = "solver" /\ pc = "select"
    /\ Cardinality(submitted) = 3 /\ Cardinality(filtered) = 3
    /\ possible_words # <<>>
    /\ Len(possible_words) <= Len(all_words) - 3

====
